---- MODULE Spec2Model ----
(***************************************************************************)
(* Model of mold's -gc-sections pass (gc_sections.cc): a parallel          *)
(* mark-sweep over input sections.  Vertices are sections, edges are       *)
(* relocations and FDE relocations.                                        *)
(***************************************************************************)
EXTENDS Integers, Sequences, FiniteSets, TLC

\* ---------------------------------------------------------------- bounds
NumFiles == 2           \* object files in ctx.objs
MaxWorkers == 2         \* threads of the task pool
MaxRuns == 2            \* gc_sections is entered at most this many times
MaxVisits == 2          \* no step of mark is taken once a section was visited this often

\* ------------------------------------------------------ program constants
DepthLimit == 3         \* `if (depth < 3)` in visit()

\* A chain of sections long enough that the in-line recursion of visit()
\* reaches the depth limit and hands a section to the feeder.
NumSections == DepthLimit + 2
NumFrags == NumFiles

Null == 0
Files == 1..NumFiles
Secs == 1..NumSections
Frags == 1..NumFrags

\* Symbols: Def(i) is defined by section i; StrSym names a fragment only;
\* BothSym has frag and input_section; UndefSym has neither.
Def(i) == i
StrSym == NumSections + 1
BothSym == NumSections + 2
UndefSym == NumSections + 3
Syms == 1..(NumSections + 3)

FileOf(s) == ((s - 1) % NumFiles) + 1
FragFileOf(g) == ((g - 1) % NumFiles) + 1

\* ---------------------------------------------------------------- helpers
RECURSIVE Flatten(_)
Flatten(ss) == IF ss = <<>> THEN <<>> ELSE Head(ss) \o Flatten(Tail(ss))

RECURSIVE SeqOfSet(_)
SeqOfSet(A) ==
  IF A = {} THEN <<>>
  ELSE LET x == CHOOSE y \in A : \A z \in A : y <= z
       IN <<x>> \o SeqOfSet(A \ {x})

Reverse(q) == [k \in 1..Len(q) |-> q[Len(q) + 1 - k]]

Range(q) == {q[k] : k \in 1..Len(q)}

\* std::string_view::starts_with on names kept as sequences of characters
starts_with(name, prefix) ==
  /\ Len(prefix) <= Len(name)
  /\ SubSeq(name, 1, Len(prefix)) = prefix

\* ------------------------------------------------------- section headers
N_text == <<".", "t", "e", "x", "t">>
N_debug == <<".", "d", "e", "b", "u", "g">>
N_init_array == <<".", "i", "n", "i", "t", "_", "a", "r", "r", "a", "y">>
N_fini_array == <<".", "f", "i", "n", "i", "_", "a", "r", "r", "a", "y">>
N_preinit_array == <<".", "p", "r", "e", "i", "n", "i", "t">>
N_note == <<".", "n", "o", "t", "e">>
N_ctors == <<".", "c", "t", "o", "r", "s">>
N_dtors == <<".", "d", "t", "o", "r", "s", ".", "1">>
N_init == <<".", "i", "n", "i", "t">>
N_fini == <<".", "f", "i", "n", "i">>
N_ctor == <<".", "c", "t", "o", "r">>
N_data == <<".", "d", "a", "t", "a">>

Hdr(type, name, flags) == [sh_type |-> type, name |-> name, sh_flags |-> flags]

TextHdr == Hdr("SHT_PROGBITS", N_text, {"SHF_ALLOC", "SHF_EXECINSTR"})

\* Headers a section may carry instead of the ordinary text header.
Headers ==
  { Hdr("SHT_PROGBITS", N_debug, {}),
    Hdr("SHT_INIT_ARRAY", N_init_array, {"SHF_ALLOC", "SHF_WRITE"}),
    Hdr("SHT_FINI_ARRAY", N_data, {"SHF_ALLOC", "SHF_WRITE"}),
    Hdr("SHT_PREINIT_ARRAY", N_preinit_array, {"SHF_ALLOC", "SHF_WRITE"}),
    Hdr("SHT_NOTE", N_note, {"SHF_ALLOC"}),
    Hdr("SHT_NOTE", N_note, {}),
    Hdr("SHT_PROGBITS", N_ctors, {"SHF_ALLOC"}),
    Hdr("SHT_PROGBITS", N_dtors, {"SHF_ALLOC"}),
    Hdr("SHT_PROGBITS", N_init, {"SHF_ALLOC", "SHF_EXECINSTR"}),
    Hdr("SHT_PROGBITS", N_fini, {"SHF_ALLOC", "SHF_EXECINSTR"}),
    Hdr("SHT_PROGBITS", N_fini_array, {}),
    Hdr("SHT_PROGBITS", N_ctor, {"SHF_ALLOC"}) }

\* ------------------------------------------------------------- the input
\* Relocation targets of each section, as symbols.
Chain(k, b) ==
  [s \in Secs |-> IF s < k THEN <<Def(s + 1)>>
                  ELSE IF s = k /\ b > 0 THEN <<Def(b)>>
                  ELSE <<>>]

Mixed ==
  [s \in Secs |-> IF s = 1 THEN <<StrSym, Def(2), UndefSym, BothSym, Def(3)>>
                  ELSE IF s = 3 THEN <<Def(4)>>
                  ELSE <<>>]

Converge ==
  [s \in Secs |-> IF s \in {1, 2} THEN <<Def(3)>>
                  ELSE IF s = 3 THEN <<Def(4), Def(1)>>
                  ELSE <<>>]

NoSeq == [s \in Secs |-> <<>>]

Fde(targets) == [rels |-> [k \in 1..Len(targets) |-> [sym |-> targets[k]]]]
Cie(targets) == [rels |-> [k \in 1..Len(targets) |-> [sym |-> targets[k]]]]

FdeOnFirst == [NoSeq EXCEPT ![1] = <<Fde(<<Def(1), Def(4)>>)>>]
FdeOnSecond ==
  [NoSeq EXCEPT ![2] = <<Fde(<<Def(2), Def(NumSections), BothSym>>),
                         Fde(<<Def(4)>>)>>]

NoCies == [f \in Files |-> <<>>]
CieOne == [NoCies EXCEPT ![1] = <<Cie(<<Def(3)>>)>>]
CieAll ==
  [f \in Files |-> IF f = 1 THEN <<Cie(<<Def(3), Def(4)>>)>>
                   ELSE <<Cie(<<Def(4), UndefSym>>), Cie(<<Def(3)>>)>>]

Name(y) ==
  IF y \in Secs THEN <<"f", y>>
  ELSE IF y = StrSym THEN <<"str">>
  ELSE IF y = BothSym THEN <<"both">>
  ELSE <<"undef">>
AbsentName == <<"_start">>

\* Every field of a configuration with the values it may take; the first
\* line of each comment names the default.
Options ==
  [ shape |-> {Chain(k, b) : k \in Secs, b \in 0..NumSections} \cup {Mixed, Converge},
    fdes |-> {NoSeq, FdeOnFirst, FdeOnSecond},
    rel_fragments |-> {NoSeq, [NoSeq EXCEPT ![2] = <<1, 2>>],
                       [NoSeq EXCEPT ![1] = <<1>>, ![2] = <<1>>]},
    entry |-> {Name(Def(1)), AbsentName, Name(StrSym), Name(BothSym)},
    exported |-> {{}, {Def(2)}, {Def(3), StrSym}, {BothSym, UndefSym}},
    undefined |-> {<<>>, <<AbsentName, Name(UndefSym), Name(Def(3))>>,
                   <<Name(StrSym), Name(Def(2))>>},
    cies |-> {NoCies, CieOne, CieAll},
    dead |-> {{}} \cup {{s} : s \in Secs},
    hdr |-> {[s \in Secs |-> TextHdr]} \cup
            {[s \in Secs |-> IF s = i THEN h ELSE TextHdr] : i \in Secs, h \in Headers},
    frag_nonalloc |-> {{}, {2}, Frags},
    nworkers |-> 1..MaxWorkers ]

Fields == DOMAIN Options

Default ==
  [ shape |-> Chain(NumSections, 0), fdes |-> NoSeq, rel_fragments |-> NoSeq,
    entry |-> Name(Def(1)), exported |-> {}, undefined |-> <<>>,
    cies |-> NoCies, dead |-> {}, hdr |-> [s \in Secs |-> TextHdr],
    frag_nonalloc |-> {}, nworkers |-> MaxWorkers ]

\* The default configuration changed in at most two fields.
Configs ==
  UNION { { [Default EXCEPT ![f1] = a, ![f2] = b] :
              a \in Options[f1], b \in Options[f2] } :
          f1 \in Fields, f2 \in Fields }

\* file->symbols: the second file lists the symbols in the opposite order,
\* so that r_sym is an index and not the symbol itself.
SymTab(f) ==
  IF f % 2 = 1 THEN SeqOfSet(Syms) ELSE Reverse(SeqOfSet(Syms))

r_sym_of(f, y) == CHOOSE k \in 1..Len(SymTab(f)) : SymTab(f)[k] = y

Build(c) ==
  [ objs |-> [f \in Files |->
       [ sections |-> <<Null>> \o SeqOfSet({s \in Secs : FileOf(s) = f}),
         symbols |-> SymTab(f),
         fragments |-> SeqOfSet({g \in Frags : FragFileOf(g) = f}),
         cies |-> c.cies[f] ]],
    arg |-> [entry |-> c.entry, undefined |-> c.undefined],
    isec |-> [s \in Secs |->
       [ file |-> FileOf(s),
         shdr |-> [sh_type |-> c.hdr[s].sh_type, sh_flags |-> c.hdr[s].sh_flags],
         name |-> c.hdr[s].name,
         rels |-> [k \in 1..Len(c.shape[s]) |->
                      [r_sym |-> r_sym_of(FileOf(s), c.shape[s][k])]],
         fdes |-> c.fdes[s],
         rel_fragments |-> [k \in 1..Len(c.rel_fragments[s]) |->
                              [frag |-> c.rel_fragments[s][k]]],
         is_alive |-> s \notin c.dead ]],
    sym |-> [y \in Syms |->
       [ name |-> Name(y),
         file |-> IF y \in Secs THEN FileOf(y)
                  ELSE IF y = StrSym THEN 1
                  ELSE IF y = BothSym THEN NumFiles ELSE Null,
         is_exported |-> y \in c.exported,
         input_section |-> IF y \in Secs THEN y
                           ELSE IF y = BothSym THEN NumSections ELSE Null,
         frag |-> IF y = StrSym THEN 1 ELSE IF y = BothSym THEN 2 ELSE Null ]],
    frag |-> [g \in Frags |->
       [ file |-> FragFileOf(g),
         output_section |-> [shdr |-> [sh_flags |->
             IF g \in c.frag_nonalloc THEN {} ELSE {"SHF_ALLOC"}]] ]],
    nworkers |-> c.nworkers ]

Inputs == {Build(c) : c \in Configs}

\* The default configuration changed in at most one field.
ConfigsOne ==
  UNION { {[Default EXCEPT ![f] = a] : a \in Options[f]} : f \in Fields }

\* The default configuration with any shape, changed in at most one of the
\* fields that add roots or feeder items.
ConfigsShaped ==
  UNION { { [Default EXCEPT !.shape = a, ![f] = b] :
              a \in Options.shape, b \in Options[f] } :
          f \in {"fdes", "exported", "undefined", "cies"} }

\* Inputs of the specification with fair scheduling.
LiveInputs == {Build(c) : c \in ConfigsOne \cup ConfigsShaped}

\* Inputs of the specification in which the depth limit varies.
DepthInputs == {Build(c) : c \in ConfigsOne}

\* ------------------------------------------------------------------ state
VARIABLES
  ctx,          \* Context<E>: the object files, symbols, fragments, arguments
  is_alive,     \* InputSection::is_alive
  is_visited,   \* InputSection::is_visited (atomic)
  frag_alive,   \* SectionFragment::is_alive
  roots,        \* tbb::concurrent_vector of collect_root_set
  feeder,       \* items of parallel_do not yet handed to a worker
  counter,      \* Counter "garbage_sections"
  depth_limit,  \* the in-line recursion limit of visit()
  phase,        \* the statement of gc_sections / collect_root_set being run
  pos,          \* per task of the running loop: elements already processed
  stack,        \* per worker of parallel_do: the active calls of visit()
  run,          \* how many times gc_sections has been entered
  visits,       \* history: calls of visit() per section
  accepted,     \* history: mark_section() calls that returned true, per section
  on_entry      \* history: flags and counter when the current run was entered

vars == <<ctx, is_alive, is_visited, frag_alive, roots, feeder, counter,
          depth_limit, phase, pos, stack, run, visits, accepted, on_entry>>

Tasks == 0..NumFiles
Workers == 1..MaxWorkers

\* The mutable memory the operations work on, as one record.
Mem ==
  [ is_alive |-> is_alive, is_visited |-> is_visited, frag_alive |-> frag_alive,
    roots |-> roots, feeder |-> feeder, counter |-> counter,
    accepted |-> accepted ]

Store(m) ==
  /\ is_alive' = m.is_alive
  /\ is_visited' = m.is_visited
  /\ frag_alive' = m.frag_alive
  /\ roots' = m.roots
  /\ feeder' = m.feeder
  /\ counter' = m.counter
  /\ accepted' = m.accepted

\* -------------------------------------------------------------- functions
\* is_init_fini without the test for the .fini prefix
is_init_fini_no_fini(isec) ==
  \/ ctx.isec[isec].shdr.sh_type = "SHT_INIT_ARRAY"
  \/ ctx.isec[isec].shdr.sh_type = "SHT_FINI_ARRAY"
  \/ ctx.isec[isec].shdr.sh_type = "SHT_PREINIT_ARRAY"
  \/ starts_with(ctx.isec[isec].name, N_ctors)
  \/ starts_with(ctx.isec[isec].name, <<".", "d", "t", "o", "r", "s">>)
  \/ starts_with(ctx.isec[isec].name, N_init)

is_init_fini(isec) ==
  \/ ctx.isec[isec].shdr.sh_type = "SHT_INIT_ARRAY"
  \/ ctx.isec[isec].shdr.sh_type = "SHT_FINI_ARRAY"
  \/ ctx.isec[isec].shdr.sh_type = "SHT_PREINIT_ARRAY"
  \/ starts_with(ctx.isec[isec].name, N_ctors)
  \/ starts_with(ctx.isec[isec].name, <<".", "d", "t", "o", "r", "s">>)
  \/ starts_with(ctx.isec[isec].name, N_init)
  \/ starts_with(ctx.isec[isec].name, N_fini)

\* mark_section with `isec->is_alive = true` in place of the test of is_alive
mark_section_assigns_alive(m, isec) ==
  IF isec = Null
  THEN [ok |-> FALSE, m |-> m]
  ELSE [ok |-> ~m.is_visited[isec],
        m |-> [m EXCEPT !.is_alive[isec] = TRUE, !.is_visited[isec] = TRUE]]

\* mark_section with a load of is_visited in place of the exchange
mark_section_load(m, isec) ==
  IF isec = Null \/ ~m.is_alive[isec]
  THEN [ok |-> FALSE, m |-> m]
  ELSE [ok |-> ~m.is_visited[isec], m |-> m]

\* mark_section without the test of is_alive
mark_section_dead_or_alive(m, isec) ==
  IF isec = Null
  THEN [ok |-> FALSE, m |-> m]
  ELSE [ok |-> ~m.is_visited[isec],
        m |-> [m EXCEPT !.is_visited[isec] = TRUE]]

\* isec && isec->is_alive && !isec->is_visited.exchange(true): the exchange
\* runs only when the first two conjuncts hold.
mark_section(m, isec) ==
  IF isec = Null \/ ~m.is_alive[isec]
  THEN [ok |-> FALSE, m |-> m]
  ELSE [ok |-> ~m.is_visited[isec],
        m |-> [m EXCEPT !.is_visited[isec] = TRUE]]

accept(m, isec) == [m EXCEPT !.accepted[isec] = @ + 1]

feeder_add(m, isec) == [m EXCEPT !.feeder[isec] = @ + 1]

\* enqueue_section pushing every live section, whatever mark_section returns
enqueue_section_unguarded(m, isec) ==
  LET r == mark_section(m, isec)
  IN IF r.ok THEN [accept(r.m, isec) EXCEPT !.roots = Append(@, isec)]
     ELSE IF isec # Null /\ m.is_alive[isec]
     THEN [r.m EXCEPT !.roots = Append(@, isec)]
     ELSE r.m

\* enqueue_section with roots.push_back outside the test of mark_section
enqueue_section_pushes_always(m, isec) ==
  LET r == mark_section(m, isec)
  IN IF r.ok THEN [accept(r.m, isec) EXCEPT !.roots = Append(@, isec)]
     ELSE [r.m EXCEPT !.roots = Append(@, isec)]

enqueue_section(m, isec) ==
  LET r == mark_section(m, isec)
  IN IF r.ok THEN [accept(r.m, isec) EXCEPT !.roots = Append(@, isec)]
     ELSE r.m

EmptySymbol ==
  [name |-> <<>>, file |-> Null, is_exported |-> FALSE,
   input_section |-> Null, frag |-> Null]

NewSym == NumSections + 4

Symbol(y) == IF y \in Syms THEN ctx.sym[y] ELSE EmptySymbol

\* Symbol<E>::intern: the symbol of that name, created empty when absent
intern(name) ==
  IF \E y \in Syms : ctx.sym[y].name = name
  THEN CHOOSE y \in Syms : ctx.sym[y].name = name
  ELSE NewSym

\* enqueue_symbol without the `else`: the section is enqueued as well
enqueue_symbol_no_else(m, sym) ==
  IF sym = Null THEN m
  ELSE IF Symbol(sym).frag # Null
       THEN enqueue_section([m EXCEPT !.frag_alive[Symbol(sym).frag] = TRUE],
                            Symbol(sym).input_section)
       ELSE enqueue_section(m, Symbol(sym).input_section)

\* enqueue_symbol leaving the fragment of the symbol alone
enqueue_symbol_skips_frag(m, sym) ==
  IF sym = Null THEN m
  ELSE IF Symbol(sym).frag # Null
       THEN m
       ELSE enqueue_section(m, Symbol(sym).input_section)

enqueue_symbol(m, sym) ==
  IF sym = Null THEN m
  ELSE IF Symbol(sym).frag # Null
       THEN [m EXCEPT !.frag_alive[Symbol(sym).frag] = TRUE]
       ELSE enqueue_section(m, Symbol(sym).input_section)

\* the first loop of collect_root_set without the non-ALLOC statement
scan_section_alloc_only(m, isec) ==
  IF is_init_fini(isec) \/ ctx.isec[isec].shdr.sh_type = "SHT_NOTE"
  THEN enqueue_section(m, isec)
  ELSE m

\* the first loop of collect_root_set writing is_alive in place of is_visited
scan_section_sets_alive(m, isec) ==
  LET m1 == IF "SHF_ALLOC" \notin ctx.isec[isec].shdr.sh_flags
            THEN [m EXCEPT !.is_alive[isec] = TRUE]
            ELSE m
  IN IF is_init_fini(isec) \/ ctx.isec[isec].shdr.sh_type = "SHT_NOTE"
     THEN enqueue_section(m1, isec)
     ELSE m1

\* the first loop of collect_root_set without the test of SHT_NOTE
scan_section_no_note(m, isec) ==
  LET m1 == IF "SHF_ALLOC" \notin ctx.isec[isec].shdr.sh_flags
            THEN [m EXCEPT !.is_visited[isec] = TRUE]
            ELSE m
  IN IF is_init_fini(isec)
     THEN enqueue_section(m1, isec)
     ELSE m1

\* body of the first loop of collect_root_set, for a non-null section
scan_section(m, isec) ==
  LET m1 == IF "SHF_ALLOC" \notin ctx.isec[isec].shdr.sh_flags
            THEN [m EXCEPT !.is_visited[isec] = TRUE]
            ELSE m
  IN IF is_init_fini(isec) \/ ctx.isec[isec].shdr.sh_type = "SHT_NOTE"
     THEN enqueue_section(m1, isec)
     ELSE m1

\* InputSection::kill
kill(m, isec) == [m EXCEPT !.is_alive[isec] = FALSE]

\* sweep without the test of is_visited
sweep_section_unvisited_or_not(m, isec) ==
  IF m.is_alive[isec]
  THEN [m EXCEPT !.is_alive[isec] = FALSE, !.counter = @ + 1]
  ELSE m

\* sweep without the test of is_alive
sweep_section_dead_or_alive(m, isec) ==
  IF ~m.is_visited[isec]
  THEN [m EXCEPT !.is_alive[isec] = FALSE, !.counter = @ + 1]
  ELSE m

\* sweep incrementing the counter for every section it examines
sweep_section_counts_examined(m, isec) ==
  IF m.is_alive[isec] /\ ~m.is_visited[isec]
  THEN [kill(m, isec) EXCEPT !.counter = @ + 1]
  ELSE [m EXCEPT !.counter = @ + 1]

\* body of the loop of sweep, for a non-null section
sweep_section(m, isec) ==
  IF m.is_alive[isec] /\ ~m.is_visited[isec]
  THEN [kill(m, isec) EXCEPT !.counter = @ + 1]
  ELSE m

\* The steps of visit() with the FDE loop running over all of fde.rels
VisitOps_all_rels(isec) ==
  [k \in 1..Len(ctx.isec[isec].rel_fragments) |->
      [op |-> "frag", x |-> ctx.isec[isec].rel_fragments[k].frag]]
  \o Flatten([k \in 1..Len(ctx.isec[isec].fdes) |->
      LET rels == ctx.isec[isec].fdes[k].rels
      IN [j \in 1..Len(rels) |-> [op |-> "fde", x |-> rels[j].sym]]])
  \o [k \in 1..Len(ctx.isec[isec].rels) |->
      [op |-> "rel", x |-> ctx.isec[isec].rels[k].r_sym]]

\* The steps of visit(isec, ...) in program order: fragment references,
\* then rels[1..] of every FDE, then the relocations.
VisitOps(isec) ==
  [k \in 1..Len(ctx.isec[isec].rel_fragments) |->
      [op |-> "frag", x |-> ctx.isec[isec].rel_fragments[k].frag]]
  \o Flatten([k \in 1..Len(ctx.isec[isec].fdes) |->
      LET rels == ctx.isec[isec].fdes[k].rels
      IN [j \in 1..(Len(rels) - 1) |-> [op |-> "fde", x |-> rels[j + 1].sym]]])
  \o [k \in 1..Len(ctx.isec[isec].rels) |->
      [op |-> "rel", x |-> ctx.isec[isec].rels[k].r_sym]]

\* visit() with `feeder.add` left out of the FDE loop
visit_step_fde_not_fed(m, isec, depth, limit, o) ==
  IF o.op = "frag"
  THEN [m |-> [m EXCEPT !.frag_alive[o.x] = TRUE], call |-> Null]
  ELSE IF o.op = "fde"
  THEN [m |-> mark_section(m, Symbol(o.x).input_section).m, call |-> Null]
  ELSE LET sym == Symbol(ctx.objs[ctx.isec[isec].file].symbols[o.x])
           r == mark_section(m, sym.input_section)
       IN IF sym.frag # Null
          THEN [m |-> [m EXCEPT !.frag_alive[sym.frag] = TRUE], call |-> Null]
          ELSE IF ~r.ok
          THEN [m |-> r.m, call |-> Null]
          ELSE IF depth < limit
          THEN [m |-> accept(r.m, sym.input_section), call |-> sym.input_section]
          ELSE [m |-> feeder_add(accept(r.m, sym.input_section), sym.input_section),
                call |-> Null]

\* visit() with `feeder.add` not guarded by mark_section in the FDE loop
visit_step_fde_always_fed(m, isec, depth, limit, o) ==
  IF o.op = "frag"
  THEN [m |-> [m EXCEPT !.frag_alive[o.x] = TRUE], call |-> Null]
  ELSE IF o.op = "fde"
  THEN LET r == mark_section(m, Symbol(o.x).input_section)
       IN [m |-> IF Symbol(o.x).input_section = Null THEN r.m
                 ELSE feeder_add(IF r.ok THEN accept(r.m, Symbol(o.x).input_section)
                                 ELSE r.m,
                                 Symbol(o.x).input_section),
           call |-> Null]
  ELSE LET sym == Symbol(ctx.objs[ctx.isec[isec].file].symbols[o.x])
           r == mark_section(m, sym.input_section)
       IN IF sym.frag # Null
          THEN [m |-> [m EXCEPT !.frag_alive[sym.frag] = TRUE], call |-> Null]
          ELSE IF ~r.ok
          THEN [m |-> r.m, call |-> Null]
          ELSE IF depth < limit
          THEN [m |-> accept(r.m, sym.input_section), call |-> sym.input_section]
          ELSE [m |-> feeder_add(accept(r.m, sym.input_section), sym.input_section),
                call |-> Null]

\* visit() without the else branch of `if (depth < 3)`
visit_step_dropped_at_limit(m, isec, depth, limit, o) ==
  IF o.op = "frag"
  THEN [m |-> [m EXCEPT !.frag_alive[o.x] = TRUE], call |-> Null]
  ELSE IF o.op = "fde"
  THEN LET r == mark_section(m, Symbol(o.x).input_section)
       IN [m |-> IF r.ok
                 THEN feeder_add(accept(r.m, Symbol(o.x).input_section),
                                 Symbol(o.x).input_section)
                 ELSE r.m,
           call |-> Null]
  ELSE LET sym == Symbol(ctx.objs[ctx.isec[isec].file].symbols[o.x])
           r == mark_section(m, sym.input_section)
       IN IF sym.frag # Null
          THEN [m |-> [m EXCEPT !.frag_alive[sym.frag] = TRUE], call |-> Null]
          ELSE IF ~r.ok
          THEN [m |-> r.m, call |-> Null]
          ELSE IF depth < limit
          THEN [m |-> accept(r.m, sym.input_section), call |-> sym.input_section]
          ELSE [m |-> r.m, call |-> Null]

\* One step of visit(isec, feeder, depth), recursing while depth < limit:
\* the new memory and the section visit() calls itself on, if any.
visit_step(m, isec, depth, limit, o) ==
  IF o.op = "frag"
  THEN [m |-> [m EXCEPT !.frag_alive[o.x] = TRUE], call |-> Null]
  ELSE IF o.op = "fde"
  THEN LET r == mark_section(m, Symbol(o.x).input_section)
       IN [m |-> IF r.ok
                 THEN feeder_add(accept(r.m, Symbol(o.x).input_section),
                                 Symbol(o.x).input_section)
                 ELSE r.m,
           call |-> Null]
  ELSE LET sym == Symbol(ctx.objs[ctx.isec[isec].file].symbols[o.x])
           r == mark_section(m, sym.input_section)
       IN IF sym.frag # Null
          THEN [m |-> [m EXCEPT !.frag_alive[sym.frag] = TRUE], call |-> Null]
          ELSE IF ~r.ok
          THEN [m |-> r.m, call |-> Null]
          ELSE IF depth < limit
          THEN [m |-> accept(r.m, sym.input_section), call |-> sym.input_section]
          ELSE [m |-> feeder_add(accept(r.m, sym.input_section), sym.input_section),
                call |-> Null]

\* ------------------------------------------------------------------ loops
\* The elements a task of the running loop processes, in order.  Task 0 is
\* the calling thread; task f > 0 is the body of a parallel_for_each for
\* file f.  Elements the loop body skips without touching shared memory
\* (null slots, symbols of other files, alloc fragments) are left out.
Items(ph, t) ==
  IF t = 0
  THEN IF ph = "ScanC" THEN <<ctx.arg.entry>> \o ctx.arg.undefined ELSE <<>>
  ELSE IF ph = "P0"
  THEN SelectSeq(ctx.objs[t].fragments,
         LAMBDA g : "SHF_ALLOC" \notin ctx.frag[g].output_section.shdr.sh_flags)
  ELSE IF ph \in {"ScanA", "sweep"}
  THEN SelectSeq(ctx.objs[t].sections, LAMBDA i : i # Null)
  ELSE IF ph = "ScanB"
  THEN SelectSeq(ctx.objs[t].symbols,
         LAMBDA y : ctx.sym[y].file = t /\ ctx.sym[y].is_exported)
  ELSE IF ph = "ScanD"
  THEN Flatten([k \in 1..Len(ctx.objs[t].cies) |-> ctx.objs[t].cies[k].rels])
  ELSE <<>>

InProgress(t) == 0 < pos[t] /\ pos[t] < Len(Items(phase, t))

\* A task has an element left, and a thread of the pool is running it or is
\* free to start it.
CanRun(t) ==
  /\ pos[t] < Len(Items(phase, t))
  /\ \/ pos[t] > 0
     \/ Cardinality({u \in Tasks : InProgress(u)}) < ctx.nworkers

Item(t) == Items(phase, t)[pos[t] + 1]

Advance(t) == pos' = [pos EXCEPT ![t] = @ + 1]

LoopDone == \A t \in Tasks : pos[t] = Len(Items(phase, t))

\* parallel_do returning as soon as no item is left to hand out
MarkDrained_items_only == \A s \in Secs : feeder[s] = 0

\* parallel_do returns when no item is left and no body is running
MarkDrained ==
  /\ \A s \in Secs : feeder[s] = 0
  /\ \A w \in Workers : stack[w] = <<>>

\* gc_sections calling sweep(ctx) before mark(ctx, roots)
Successor_sweep_first(ph) ==
  CASE ph = "P0" -> "ScanA"
    [] ph = "ScanA" -> "ScanB"
    [] ph = "ScanB" -> "ScanC"
    [] ph = "ScanC" -> "ScanD"
    [] ph = "ScanD" -> "sweep"
    [] ph = "sweep" -> "mark"
    [] ph = "mark" -> "done"

Successor(ph) ==
  CASE ph = "P0" -> "ScanA"
    [] ph = "ScanA" -> "ScanB"
    [] ph = "ScanB" -> "ScanC"
    [] ph = "ScanC" -> "ScanD"
    [] ph = "ScanD" -> "mark"
    [] ph = "mark" -> "sweep"
    [] ph = "sweep" -> "done"

\* ---------------------------------------------------------------- actions
\* The state on entry to gc_sections, for an input of `inputs` and a depth
\* limit of `limits`.
InitFor(inputs, limits) ==
  /\ ctx \in inputs
  /\ is_alive = [s \in Secs |-> ctx.isec[s].is_alive]
  /\ is_visited = [s \in Secs |-> FALSE]
  /\ frag_alive = [g \in Frags |-> FALSE]
  /\ roots = <<>>
  /\ feeder = [s \in Secs |-> 0]
  /\ counter = 0
  /\ depth_limit \in limits
  /\ phase = "P0"
  /\ pos = [t \in Tasks |-> 0]
  /\ stack = [w \in Workers |-> <<>>]
  /\ run = 1
  /\ visits = [s \in Secs |-> 0]
  /\ accepted = [s \in Secs |-> 0]
  /\ on_entry = [is_alive |-> is_alive, is_visited |-> is_visited,
                 frag_alive |-> frag_alive, counter |-> counter]

Init == InitFor(Inputs, {DepthLimit})

Fixed == UNCHANGED <<ctx, depth_limit, run, on_entry>>

\* mark_nonalloc_fragments: one fragment of file f
MarkNonallocFragment(f) ==
  /\ phase = "P0" /\ CanRun(f)
  /\ frag_alive' = [frag_alive EXCEPT ![Item(f)] = TRUE]
  /\ Advance(f)
  /\ UNCHANGED <<is_alive, is_visited, roots, feeder, counter, phase, stack,
                 visits, accepted>>
  /\ Fixed

\* collect_root_set, first loop: one section of file f
ScanSections(f) ==
  /\ phase = "ScanA" /\ CanRun(f)
  /\ Store(scan_section(Mem, Item(f)))
  /\ Advance(f)
  /\ UNCHANGED <<phase, stack, visits>>
  /\ Fixed

\* collect_root_set, second loop: one exported symbol of file f
ScanExported(f) ==
  /\ phase = "ScanB" /\ CanRun(f)
  /\ Store(enqueue_symbol(Mem, Item(f)))
  /\ Advance(f)
  /\ UNCHANGED <<phase, stack, visits>>
  /\ Fixed

\* collect_root_set: the entry symbol, then one name of ctx.arg.undefined
ScanNamed ==
  /\ phase = "ScanC" /\ CanRun(0)
  /\ Store(enqueue_symbol(Mem, intern(Item(0))))
  /\ Advance(0)
  /\ UNCHANGED <<phase, stack, visits>>
  /\ Fixed

\* collect_root_set, last loop: one relocation of a CIE of file f
ScanCies(f) ==
  /\ phase = "ScanD" /\ CanRun(f)
  /\ Store(enqueue_section(Mem, Symbol(Item(f).sym).input_section))
  /\ Advance(f)
  /\ UNCHANGED <<phase, stack, visits>>
  /\ Fixed

\* Return from every call of visit() whose loops are finished.
RECURSIVE Unwind(_)
Unwind(st) ==
  IF st # <<>> /\ st[Len(st)].i = Len(VisitOps(st[Len(st)].isec))
  THEN Unwind(SubSeq(st, 1, Len(st) - 1))
  ELSE st

Frame(isec, depth) == [isec |-> isec, depth |-> depth, i |-> 0]

\* mark: a worker takes an item of parallel_do and calls visit(isec, feeder, 0)
Visit(w) ==
  /\ phase = "mark" /\ w <= ctx.nworkers /\ stack[w] = <<>>
  /\ \A s \in Secs : visits[s] < MaxVisits
  /\ \E s \in Secs :
       /\ feeder[s] > 0
       /\ feeder' = [feeder EXCEPT ![s] = @ - 1]
       /\ visits' = [visits EXCEPT ![s] = @ + 1]
       /\ stack' = [stack EXCEPT ![w] = Unwind(<<Frame(s, 0)>>)]
  /\ UNCHANGED <<is_alive, is_visited, frag_alive, roots, counter, phase, pos,
                 accepted>>
  /\ Fixed

\* visit: the next step of the innermost call of worker w
VisitStep(w) ==
  /\ phase = "mark" /\ stack[w] # <<>>
  /\ \A s \in Secs : visits[s] < MaxVisits
  /\ LET n == Len(stack[w])
         top == stack[w][n]
         r == visit_step(Mem, top.isec, top.depth, depth_limit,
                         VisitOps(top.isec)[top.i + 1])
         st == [stack[w] EXCEPT ![n].i = @ + 1]
     IN /\ Store(r.m)
        /\ IF r.call = Null
           THEN /\ stack' = [stack EXCEPT ![w] = Unwind(st)]
                /\ UNCHANGED visits
           ELSE /\ stack' = [stack EXCEPT
                      ![w] = Unwind(Append(st, Frame(r.call, top.depth + 1)))]
                /\ visits' = [visits EXCEPT ![r.call] = @ + 1]
  /\ UNCHANGED <<phase, pos>>
  /\ Fixed

\* sweep: one section of file f
Sweep(f) ==
  /\ phase = "sweep" /\ CanRun(f)
  /\ Store(sweep_section(Mem, Item(f)))
  /\ Advance(f)
  /\ UNCHANGED <<phase, stack, visits>>
  /\ Fixed

\* gc_sections and collect_root_set go on to their next statement when the
\* running loop has returned; mark() hands the roots to parallel_do.
NextStatement ==
  /\ phase # "done" /\ LoopDone
  /\ phase = "mark" => MarkDrained
  /\ phase' = Successor(phase)
  /\ pos' = [t \in Tasks |-> 0]
  /\ feeder' = IF phase = "ScanD"
               THEN [s \in Secs |->
                       Cardinality({k \in 1..Len(roots) : roots[k] = s})]
               ELSE feeder
  /\ UNCHANGED <<is_alive, is_visited, frag_alive, roots, counter, stack,
                 visits, accepted>>
  /\ Fixed

\* gc_sections is called again on the state the previous call left
Rerun ==
  /\ phase = "done" /\ run < MaxRuns
  /\ run' = run + 1
  /\ phase' = "P0"
  /\ roots' = <<>>
  /\ visits' = [s \in Secs |-> 0]
  /\ accepted' = [s \in Secs |-> 0]
  /\ on_entry' = [is_alive |-> is_alive, is_visited |-> is_visited,
                  frag_alive |-> frag_alive, counter |-> counter]
  /\ UNCHANGED <<ctx, depth_limit, is_alive, is_visited, frag_alive, feeder,
                 counter, pos, stack>>

Next ==
  \/ \E f \in Files : MarkNonallocFragment(f)
  \/ \E f \in Files : ScanSections(f)
  \/ \E f \in Files : ScanExported(f)
  \/ ScanNamed
  \/ \E f \in Files : ScanCies(f)
  \/ \E w \in Workers : Visit(w)
  \/ \E w \in Workers : VisitStep(w)
  \/ \E f \in Files : Sweep(f)
  \/ NextStatement
  \/ Rerun

Spec == Init /\ [][Next]_vars

TypeOK ==
  /\ is_alive \in [Secs -> BOOLEAN]
  /\ is_visited \in [Secs -> BOOLEAN]
  /\ frag_alive \in [Frags -> BOOLEAN]
  /\ counter \in 0..NumSections

\* ------------------------------------------------- the single-thread run
\* gc_sections run by one thread that takes files, elements and parallel_do
\* items in index order, computed from the input alone.
Effect(ph, m, x) ==
  CASE ph = "P0" -> [m EXCEPT !.frag_alive[x] = TRUE]
    [] ph = "ScanA" -> scan_section(m, x)
    [] ph = "ScanB" -> enqueue_symbol(m, x)
    [] ph = "ScanC" -> enqueue_symbol(m, intern(x))
    [] ph = "ScanD" -> enqueue_section(m, Symbol(x.sym).input_section)
    [] ph = "sweep" -> sweep_section(m, x)

RECURSIVE SeqItems(_, _, _, _)
SeqItems(ph, m, items, k) ==
  IF k > Len(items) THEN m
  ELSE SeqItems(ph, Effect(ph, m, items[k]), items, k + 1)

RECURSIVE SeqTasks(_, _, _)
SeqTasks(ph, m, t) ==
  IF t > NumFiles THEN m
  ELSE SeqTasks(ph, SeqItems(ph, m, Items(ph, t), 1), t + 1)

RECURSIVE SeqVisit(_, _, _, _, _)
SeqVisit(m, isec, depth, limit, k) ==
  IF k > Len(VisitOps(isec)) THEN m
  ELSE LET r == visit_step(m, isec, depth, limit, VisitOps(isec)[k])
       IN SeqVisit(IF r.call = Null THEN r.m
                   ELSE SeqVisit(r.m, r.call, depth + 1, limit, 1),
                   isec, depth, limit, k + 1)

RECURSIVE SeqMark(_, _)
SeqMark(m, limit) ==
  IF \A s \in Secs : m.feeder[s] = 0 THEN m
  ELSE LET s == CHOOSE x \in Secs :
                  m.feeder[x] > 0 /\ \A y \in Secs : m.feeder[y] > 0 => x <= y
       IN SeqMark(SeqVisit([m EXCEPT !.feeder[s] = @ - 1], s, 0, limit, 1), limit)

SeqRun(limit) ==
  LET m0 == [ is_alive |-> [s \in Secs |-> ctx.isec[s].is_alive],
              is_visited |-> [s \in Secs |-> FALSE],
              frag_alive |-> [g \in Frags |-> FALSE],
              roots |-> <<>>, feeder |-> [s \in Secs |-> 0], counter |-> 0,
              accepted |-> [s \in Secs |-> 0] ]
      m1 == SeqTasks("P0", m0, 0)
      m2 == SeqTasks("ScanA", m1, 0)
      m3 == SeqTasks("ScanB", m2, 0)
      m4 == SeqTasks("ScanC", m3, 0)
      m5 == SeqTasks("ScanD", m4, 0)
      m6 == SeqMark([m5 EXCEPT !.feeder = [s \in Secs |->
                       Cardinality({k \in 1..Len(m5.roots) : m5.roots[k] = s})]],
                    limit)
  IN SeqTasks("sweep", m6, 0)

\* ----------------------------------------------------- terms of the claims
Returned == phase = "done"

AliveOnEntry(s) == on_entry.is_alive[s]
HasAlloc(s) == "SHF_ALLOC" \in ctx.isec[s].shdr.sh_flags

\* Scan A: INIT_ARRAY, FINI_ARRAY, PREINIT_ARRAY or NOTE by type, or a name
\* that starts with .ctors, .dtors, .init or .fini
StructuralRoot(s) ==
  \/ ctx.isec[s].shdr.sh_type \in
       {"SHT_INIT_ARRAY", "SHT_FINI_ARRAY", "SHT_PREINIT_ARRAY", "SHT_NOTE"}
  \/ \E p \in { <<".", "c", "t", "o", "r", "s">>, <<".", "d", "t", "o", "r", "s">>,
                <<".", "i", "n", "i", "t">>, <<".", "f", "i", "n", "i">> } :
       /\ Len(ctx.isec[s].name) >= Len(p)
       /\ \A k \in 1..Len(p) : ctx.isec[s].name[k] = p[k]

\* Scans B and C: the exported symbols owned by their file, the entry symbol
\* and the symbols of the undefined list
RootSymbols ==
  {y \in Syms : ctx.sym[y].is_exported /\ ctx.sym[y].file \in Files}
  \cup {y \in Syms : ctx.sym[y].name = ctx.arg.entry}
  \cup {y \in Syms : \E k \in 1..Len(ctx.arg.undefined) :
                        ctx.sym[y].name = ctx.arg.undefined[k]}

\* Scan D: the sections the relocations of the CIEs refer to
CieTargets ==
  UNION { UNION { {ctx.sym[ctx.objs[f].cies[k].rels[j].sym].input_section :
                     j \in 1..Len(ctx.objs[f].cies[k].rels)} :
                  k \in 1..Len(ctx.objs[f].cies) } :
          f \in Files } \ {Null}

\* The sections the root collector nominates: those of Scan A, the
\* input_section of a root symbol that names no fragment, those of Scan D.
Nominated ==
  {s \in Secs : StructuralRoot(s)}
  \cup ({ctx.sym[y].input_section : y \in {z \in RootSymbols : ctx.sym[z].frag = Null}}
        \ {Null})
  \cup CieTargets

\* The marker's edges out of s: the input_section of the symbol of every
\* relocation whose symbol names no fragment, and of every FDE's rels[1..].
MarkerEdges(s) ==
  ( {ctx.sym[ctx.objs[ctx.isec[s].file].symbols[ctx.isec[s].rels[k].r_sym]].input_section :
       k \in {j \in 1..Len(ctx.isec[s].rels) :
          ctx.sym[ctx.objs[ctx.isec[s].file].symbols[ctx.isec[s].rels[j].r_sym]].frag = Null}}
    \cup UNION { {ctx.sym[ctx.isec[s].fdes[k].rels[j].sym].input_section :
                    j \in 2..Len(ctx.isec[s].fdes[k].rels)} :
                 k \in 1..Len(ctx.isec[s].fdes) } ) \ {Null}

\* The sections reachable from R by edges that stay inside Within.
RECURSIVE ReachableFrom(_, _)
ReachableFrom(R, Within) ==
  LET more == R \cup {t \in Within : \E s \in R : t \in MarkerEdges(s)}
  IN IF more = R THEN R ELSE ReachableFrom(more, Within)

\* The sections the marker may enter: alive on entry and with ALLOC.
Eligible == {s \in Secs : AliveOnEntry(s) /\ HasAlloc(s)}

\* ------------------------------------------------------------------ claims
\* C1 as stated: after gc_sections completes, a section is alive if and only
\* if it is reachable from a section nominated by Scans A-D along marker
\* edges.
TransitiveClosureAsClaimed ==
  Returned =>
    \A s \in Secs : is_alive[s] <=> s \in ReachableFrom(Nominated, Secs)

\* C1 (amended): after gc_sections completes, a section is alive if and only
\* if it was alive on entry and either lacks ALLOC or is reachable from a
\* nominated section that was alive on entry and has ALLOC, along marker
\* edges through sections that were alive on entry and have ALLOC.
TransitiveClosure ==
  Returned =>
    \A s \in Secs :
      is_alive[s] <=>
        /\ AliveOnEntry(s)
        /\ \/ ~HasAlloc(s)
           \/ s \in ReachableFrom(Nominated \cap Eligible, Eligible)

\* C1 witness: the first run has returned, it kept a section that is no root
\* and is reached only through another section, and it killed a section.
TransitiveClosureWitness ==
  /\ Returned /\ run = 1
  /\ \E s \in Eligible \ Nominated :
       /\ is_alive[s]
       /\ \A r \in Nominated : s \notin MarkerEdges(r)
  /\ \E t \in Eligible : ~is_alive[t]

\* The section the next step of worker w applies mark_section to, if any.
NextTarget(w) ==
  IF stack[w] = <<>> THEN Null
  ELSE LET top == stack[w][Len(stack[w])]
           o == VisitOps(top.isec)[top.i + 1]
       IN IF o.op = "fde" THEN ctx.sym[o.x].input_section
          ELSE IF o.op = "rel" /\ ctx.sym[ctx.objs[ctx.isec[top.isec].file].symbols[o.x]].frag = Null
          THEN ctx.sym[ctx.objs[ctx.isec[top.isec].file].symbols[o.x]].input_section
          ELSE Null

\* C2: in every state no section has been accepted by mark_section more than
\* once, visit() has been called on no section that was not accepted and on
\* none twice, and once the mark phase is over visit() has been called exactly
\* once on every accepted section.
ExactlyOnceVisit ==
  \A s \in Secs :
    /\ accepted[s] <= 1
    /\ visits[s] <= accepted[s]
    /\ phase \in {"sweep", "done"} => visits[s] = accepted[s]

\* C2 witness: two workers are inside visit() and the next step of each
\* applies mark_section to the same section, alive and not yet visited, which
\* lies on a cycle through the section one of them is visiting.
ExactlyOnceVisitWitness ==
  /\ phase = "mark"
  /\ \E w1, w2 \in Workers :
       /\ w1 # w2
       /\ NextTarget(w1) # Null
       /\ NextTarget(w1) = NextTarget(w2)
       /\ is_alive[NextTarget(w1)] /\ ~is_visited[NextTarget(w1)]
       /\ stack[w1][1].isec \in MarkerEdges(NextTarget(w1))

\* C3: when gc_sections has returned, the is_alive flag of every section and
\* the counter of killed sections are those of the single-thread run on the
\* same input, whatever the number of workers and the interleaving were.
DeterministicOutcome ==
  Returned =>
    /\ is_alive = SeqRun(depth_limit).is_alive
    /\ counter = SeqRun(depth_limit).counter

\* C3 witness: a run with more than one worker has returned after collecting
\* the roots in another order than the single-thread run, and it killed a
\* section.
DeterministicOutcomeWitness ==
  /\ Returned /\ run = 1
  /\ ctx.nworkers > 1
  /\ roots # SeqRun(depth_limit).roots
  /\ counter > 0

\* C4: when gc_sections has returned, every section that was alive on entry
\* is either alive with is_visited set or dead with is_visited clear.
Coverage ==
  Returned =>
    \A s \in Secs : AliveOnEntry(s) => (is_alive[s] <=> is_visited[s])

\* C4 witness: the first run has returned, having kept a visited section and
\* killed a section that was alive on entry.
CoverageWitness ==
  /\ Returned /\ run = 1
  /\ \E s \in Secs : AliveOnEntry(s) /\ is_alive[s] /\ is_visited[s] /\ visits[s] = 1
  /\ \E t \in Secs : AliveOnEntry(t) /\ ~is_alive[t] /\ ~is_visited[t]

\* C5: in every state, a section that was dead on entry to gc_sections is
\* dead.
NoResurrection ==
  \A s \in Secs : ~AliveOnEntry(s) => ~is_alive[s]

\* C5 witness: the first run has returned and a section that was dead on entry
\* is nominated as a root or referenced by a section that was visited.
NoResurrectionWitness ==
  /\ Returned /\ run = 1
  /\ \E s \in Secs :
       /\ ~AliveOnEntry(s)
       /\ \/ s \in Nominated
          \/ \E r \in Secs : visits[r] = 1 /\ s \in MarkerEdges(r)

\* The sections some marker edge leads to.
Referenced == UNION {MarkerEdges(r) : r \in Secs}

\* C6 as stated: when gc_sections has returned, every section nominated by
\* Scans A-D is alive.
RootLivenessAsClaimed ==
  Returned => \A s \in Nominated : is_alive[s]

\* C6 (amended): when gc_sections has returned, every section that was alive
\* on entry and is nominated by Scans A-D is alive: the sections of type
\* INIT_ARRAY, FINI_ARRAY, PREINIT_ARRAY or NOTE or with a name starting with
\* .ctors, .dtors, .init or .fini, the input_section of every exported symbol
\* owned by its file, of the entry symbol and of every undefined-list symbol
\* when the symbol has no frag, and the sections CIE relocations refer to.
RootLiveness ==
  Returned => \A s \in Nominated : AliveOnEntry(s) => is_alive[s]

\* C6 witness: the first run has returned and kept a section with ALLOC that
\* Scan A alone nominates (no symbol root, no CIE, no edge leads to it), and a
\* section a CIE relocation refers to or a root symbol defines.
RootLivenessWitness ==
  /\ Returned /\ run = 1
  /\ \E s \in Secs :
       /\ StructuralRoot(s) /\ HasAlloc(s) /\ is_alive[s]
       /\ s \notin Referenced
       /\ s \notin CieTargets
       /\ \A y \in RootSymbols : ctx.sym[y].input_section # s
  /\ \E t \in Secs :
       /\ ~StructuralRoot(t) /\ HasAlloc(t) /\ is_alive[t]
       /\ t \in Nominated

\* C7 as stated: when gc_sections has returned, every section without ALLOC
\* is alive.
NonAllocPreservedAsClaimed ==
  Returned => \A s \in Secs : ~HasAlloc(s) => is_alive[s]

\* C7 (amended): in every state, every section without ALLOC that was alive
\* on entry is alive; the sweeper kills no section without ALLOC.
NonAllocPreserved ==
  \A s \in Secs : (AliveOnEntry(s) /\ ~HasAlloc(s)) => is_alive[s]

\* C7 witness: the first run has returned and a section without ALLOC that is
\* no root and that nothing refers to is alive, while the run killed a section.
NonAllocPreservedWitness ==
  /\ Returned /\ run = 1
  /\ \E s \in Secs :
       /\ ~HasAlloc(s) /\ is_alive[s]
       /\ s \notin Nominated /\ s \notin Referenced
  /\ counter > 0

\* C8: throughout a run of gc_sections that follows a completed run, no
\* section's is_alive, no fragment's is_alive and not the counter of killed
\* sections differ from their values on entry to that run.
Idempotence ==
  run > 1 =>
    /\ is_alive = on_entry.is_alive
    /\ frag_alive = on_entry.frag_alive
    /\ counter = on_entry.counter

\* C8 witness: the second run has returned; the first run had killed a
\* section, kept a section with ALLOC and marked a fragment.
IdempotenceWitness ==
  /\ Returned /\ run = 2
  /\ counter > 0
  /\ \E s \in Secs : is_alive[s] /\ HasAlloc(s)
  /\ \E g \in Frags : frag_alive[g]

\* ------------------------------------------------------------- scheduling
\* Every step of gc_sections itself; the pool always has a thread that runs
\* an enabled step, and nothing obliges the caller to call gc_sections again.
Work ==
  \/ \E f \in Files : MarkNonallocFragment(f)
  \/ \E f \in Files : ScanSections(f)
  \/ \E f \in Files : ScanExported(f)
  \/ ScanNamed
  \/ \E f \in Files : ScanCies(f)
  \/ \E w \in Workers : Visit(w)
  \/ \E w \in Workers : VisitStep(w)
  \/ \E f \in Files : Sweep(f)
  \/ NextStatement

InitLive == InitFor(LiveInputs, {DepthLimit})

FairSpec == InitLive /\ [][Next]_vars /\ WF_vars(Work)

\* The sections that lie on a cycle of marker edges.
OnCycle(s) ==
  s \in ReachableFrom(MarkerEdges(s) \cap Eligible, Eligible)

\* C9: under fair scheduling every run of gc_sections returns, which it does
\* only after the mark phase has drained (no item left, no worker inside
\* visit()), and visit() is never called twice on a section, so that a run
\* makes no more calls of visit() than there are sections.
Termination ==
  /\ [](\A s \in Secs : visits[s] <= 1)
  /\ []<>Returned

\* C9 witness: a run has returned after visit() was called on a section that
\* lies on a cycle of marker edges.
TerminationWitness ==
  /\ Returned /\ run = 1
  /\ \E s \in Eligible : OnCycle(s) /\ visits[s] = 1

\* ------------------------------------------------- the depth limit varies
InitDepth == InitFor(DepthInputs, 0..(DepthLimit + 1))

SpecDepth == InitDepth /\ [][Next]_vars

\* C10: whatever the depth limit of the in-line recursion is (0, 3 or any
\* other), when gc_sections has returned the is_alive flags of all sections
\* and of all fragments are those the pure-queue marker (depth limit 0)
\* produces on the same input.
DepthIndependence ==
  Returned =>
    /\ is_alive = SeqRun(0).is_alive
    /\ frag_alive = SeqRun(0).frag_alive

\* C10 witness: with the depth limit 3 of the source, a call of visit() at
\* depth 3 has handed to the feeder a section that it accepted and that is no
\* root (no section has an FDE, so no FDE edge could have).
DepthIndependenceWitness ==
  /\ phase = "mark" /\ depth_limit = DepthLimit
  /\ \A t \in Secs : ctx.isec[t].fdes = <<>>
  /\ \E s \in Secs : feeder[s] = 1 /\ accepted[s] = 1 /\ s \notin Range(roots)

\* --------------------------------------------------- phases and frame rules
\* The phases of one call of gc_sections in program order: P0, the four
\* scans of P1, P2 and P3.
PhaseOrder ==
  <<"P0", "ScanA", "ScanB", "ScanC", "ScanD", "mark", "sweep", "done">>

PhaseIndex(ph) == CHOOSE k \in 1..Len(PhaseOrder) : PhaseOrder[k] = ph

\* The sections this call of gc_sections has killed so far.
Killed == {s \in Secs : on_entry.is_alive[s] /\ ~is_alive[s]}

\* C11: the phases run in the fixed order P0, P1, P2, P3, each starting only
\* after the previous one; and once a section has been killed no root
\* collector or marker work is pending: the phase is the sweep or later, the
\* work queue is empty, no call of visit() is running, and visit() has been
\* called on every section mark_section accepted.
PhaseOrdering ==
  /\ [][phase' # phase =>
          \/ PhaseIndex(phase') = PhaseIndex(phase) + 1
          \/ phase = "done" /\ phase' = "P0" /\ run' = run + 1]_vars
  /\ [](Killed # {} =>
          /\ phase \in {"sweep", "done"}
          /\ \A s \in Secs : feeder[s] = 0
          /\ \A w \in Workers : stack[w] = <<>>
          /\ \A s \in Secs : visits[s] = accepted[s])

\* C11 witness: the sweep has just killed its first section, after two
\* workers of the marker ran visit() on accepted sections.
PhaseOrderingWitness ==
  /\ phase = "sweep" /\ run = 1
  /\ Cardinality(Killed) = 1
  /\ ctx.nworkers = 2
  /\ Cardinality({s \in Secs : accepted[s] = 1 /\ visits[s] = 1}) >= 2

\* The marker and the root collector have left section s alone: it is in
\* neither the root vector nor the work queue, mark_section has not accepted
\* it and visit() has not been called on it, so none of its outgoing edges
\* has been traversed.
Untouched(s) ==
  /\ s \notin Range(roots)
  /\ feeder[s] = 0
  /\ accepted[s] = 0
  /\ visits[s] = 0
  /\ \A w \in Workers : \A k \in 1..Len(stack[w]) : stack[w][k].isec # s

\* C12 as stated: a section that is dead on entry keeps both flags (is_alive
\* false, is_visited as on entry), is never in the root vector or the work
\* queue, and its outgoing edges are never traversed.
DeadInvisibleAsClaimed ==
  \A s \in Secs :
    ~AliveOnEntry(s) =>
      /\ ~is_alive[s]
      /\ is_visited[s] = on_entry.is_visited[s]
      /\ Untouched(s)

\* C12: a section that is dead on entry stays dead, is never in the root
\* vector or the work queue, and its outgoing edges are never traversed; its
\* is_visited keeps its value on entry when the section has SHF_ALLOC (the
\* first loop of collect_root_set sets is_visited on every section without
\* SHF_ALLOC, dead ones included).
DeadInvisible ==
  \A s \in Secs :
    ~AliveOnEntry(s) =>
      /\ ~is_alive[s]
      /\ HasAlloc(s) => is_visited[s] = on_entry.is_visited[s]
      /\ Untouched(s)

\* C12 witness: gc_sections has returned; a section with SHF_ALLOC that was
\* dead on entry is the target of a relocation of a visited section, and a
\* section only it refers to has been killed.
DeadInvisibleWitness ==
  /\ Returned /\ run = 1
  /\ \E s \in Secs :
       /\ ~AliveOnEntry(s) /\ HasAlloc(s) /\ ~is_visited[s]
       /\ \E r \in Secs : visits[r] = 1 /\ s \in MarkerEdges(r)
       /\ \E t \in MarkerEdges(s) :
            /\ AliveOnEntry(t) /\ ~is_alive[t]
            /\ \A r \in Secs : t \in MarkerEdges(r) => r = s

\* C13: outside the sweep no step changes the is_alive flag of a section or
\* the counter; every change of a section's is_alive is made by the sweep and
\* takes the flag from true to false.
WriteDiscipline ==
  [][/\ phase # "sweep" => is_alive' = is_alive /\ counter' = counter
     /\ \A s \in Secs :
          is_alive'[s] # is_alive[s] => is_alive[s] /\ ~is_alive'[s]]_vars

\* C13 witness: the sweep has killed a section; before that, the root
\* collector set is_visited on a section that was dead on entry and the
\* marker set is_visited on live sections, without a change of is_alive.
WriteDisciplineWitness ==
  /\ phase = "sweep" /\ run = 1
  /\ Killed # {}
  /\ \E s \in Secs : ~AliveOnEntry(s) /\ is_visited[s] /\ ~is_alive[s]
  /\ \E s \in Secs : visits[s] = 1 /\ is_visited[s] /\ is_alive[s]

\* C14: in every state the root vector holds each section at most once,
\* however many scans and tasks nominate it.
RootUniqueness ==
  \A j, k \in 1..Len(roots) : roots[j] = roots[k] => j = k

\* C14 witness: in the last scan of collect_root_set the tasks of two files
\* are each about to enqueue the same live section, which is not visited yet,
\* while the root vector already holds a section.
RootUniquenessWitness ==
  /\ phase = "ScanD" /\ run = 1
  /\ \E f, g \in Files :
       /\ f # g /\ CanRun(f) /\ CanRun(g)
       /\ Symbol(Item(f).sym).input_section = Symbol(Item(g).sym).input_section
       /\ Symbol(Item(f).sym).input_section \in Secs
       /\ is_alive[Symbol(Item(f).sym).input_section]
       /\ ~is_visited[Symbol(Item(f).sym).input_section]
  /\ roots # <<>>

\* C15: a step of the sweep that examines section s kills it exactly when s
\* is alive and not visited at that moment (a visited section is kept, a
\* dead one stays dead), touches the is_alive flag of no other section, and
\* increments the counter exactly when it kills; when gc_sections has
\* returned, the counter has grown by the number of sections whose is_alive
\* went from true to false.
SweepRule ==
  /\ [][phase = "sweep" =>
          \A f \in Files :
            pos'[f] = pos[f] + 1 =>
              /\ is_alive'[Item(f)] = (is_alive[Item(f)] /\ is_visited[Item(f)])
              /\ counter' = counter +
                   (IF is_alive[Item(f)] /\ ~is_visited[Item(f)] THEN 1 ELSE 0)
              /\ \A t \in Secs \ {Item(f)} : is_alive'[t] = is_alive[t]]_vars
  /\ [](Returned => counter = on_entry.counter + Cardinality(Killed))

\* C15 witness: gc_sections has returned; the sweep killed sections of two
\* files, kept a visited section and skipped a section that was dead on entry.
SweepRuleWitness ==
  /\ Returned /\ run = 1
  /\ \E s, t \in Killed : FileOf(s) # FileOf(t)
  /\ counter = Cardinality(Killed)
  /\ \E s \in Secs : is_alive[s] /\ is_visited[s] /\ HasAlloc(s)
  /\ \E s \in Secs : ~AliveOnEntry(s) /\ ~is_visited[s]

\* The sections the relocations of s refer to: the input_section of the
\* symbol of every relocation whose symbol names no fragment.
RelEdges(s) ==
  {ctx.sym[ctx.objs[ctx.isec[s].file].symbols[ctx.isec[s].rels[k].r_sym]].input_section :
     k \in {j \in 1..Len(ctx.isec[s].rels) :
        ctx.sym[ctx.objs[ctx.isec[s].file].symbols[ctx.isec[s].rels[j].r_sym]].frag = Null}}
  \ {Null}

\* Section s is alive and not visited on entry and has one of the types
\* INIT_ARRAY, FINI_ARRAY, PREINIT_ARRAY, NOTE or one of the name prefixes
\* .ctors, .dtors, .init, .fini.
StructuralOnEntry(s) ==
  AliveOnEntry(s) /\ ~on_entry.is_visited[s] /\ StructuralRoot(s)

\* s is a root whose edges the marker traversed: once the first scan is over
\* s is in the root vector, and when gc_sections has returned visit() has
\* been called on s once and every section alive on entry that a relocation
\* of s refers to is alive.
TreatedAsRoot(s) ==
  /\ PhaseIndex(phase) > PhaseIndex("ScanA") => s \in Range(roots)
  /\ Returned =>
       /\ visits[s] = 1
       /\ \A t \in RelEdges(s) : AliveOnEntry(t) => is_alive[t]

\* C16 as stated: every section alive on entry with a structural type or
\* name prefix is treated as a root, with or without SHF_ALLOC.
StructuralRootsAsClaimed ==
  \A s \in Secs : StructuralOnEntry(s) => TreatedAsRoot(s)

\* C16: every section alive on entry with a structural type or name prefix
\* that has SHF_ALLOC is treated as a root: it is in the root vector, the
\* marker traverses its edges, and every section alive on entry that one of
\* its relocations refers to is alive after gc_sections.
StructuralRoots ==
  \A s \in Secs : StructuralOnEntry(s) /\ HasAlloc(s) => TreatedAsRoot(s)

\* C16 witness: gc_sections has returned with a structural section with
\* SHF_ALLOC as the only root, and a section with SHF_ALLOC that one of its
\* relocations refers to is alive.
StructuralRootsWitness ==
  /\ Returned /\ run = 1
  /\ \E s \in Secs :
       /\ StructuralOnEntry(s) /\ HasAlloc(s)
       /\ roots = <<s>>
       /\ \E t \in RelEdges(s) : t # s /\ HasAlloc(t) /\ is_alive[t]

\* The symbol of the relocation of its section that worker w processes next,
\* Null when w is idle or about to process a fragment reference or an FDE.
NextRelSym(w) ==
  IF stack[w] = <<>> THEN Null
  ELSE LET top == stack[w][Len(stack[w])]
           o == VisitOps(top.isec)[top.i + 1]
       IN IF o.op = "rel"
          THEN ctx.objs[ctx.isec[top.isec].file].symbols[o.x]
          ELSE Null

\* The symbol the root collector processes next for task t: an exported
\* symbol of file t, or the symbol the entry or undefined name resolves to.
NextRootSym(t) ==
  IF phase = "ScanB" /\ t \in Files /\ pos[t] < Len(Items(phase, t))
  THEN Item(t)
  ELSE IF phase = "ScanC" /\ t = 0 /\ pos[t] < Len(Items(phase, t))
          /\ \E y \in Syms : ctx.sym[y].name = Item(t)
  THEN CHOOSE y \in Syms : ctx.sym[y].name = Item(t)
  ELSE Null

\* The step marks fragment g alive and goes no further: it accepts,
\* enqueues and visits no section.
StopsAtFragment(g) ==
  /\ frag_alive' = [frag_alive EXCEPT ![g] = TRUE]
  /\ UNCHANGED <<is_alive, is_visited, roots, feeder, accepted, visits>>

\* C17: a step of the marker that processes a relocation whose symbol has a
\* frag, and a step of the root collector that processes an exported, entry
\* or undefined symbol that has a frag, sets the fragment's is_alive and
\* accepts, enqueues and visits no section, whether or not the symbol also
\* has an input_section; the marker's step starts no call of visit().
FragmentPrecedence ==
  [][/\ phase = "mark" =>
          \A w \in Workers :
            (/\ stack'[w] # stack[w]
             /\ NextRelSym(w) # Null
             /\ ctx.sym[NextRelSym(w)].frag # Null)
            => /\ StopsAtFragment(ctx.sym[NextRelSym(w)].frag)
               /\ Len(stack'[w]) <= Len(stack[w])
     /\ \A t \in Tasks :
          (/\ pos'[t] = pos[t] + 1
           /\ NextRootSym(t) # Null
           /\ ctx.sym[NextRootSym(t)].frag # Null)
          => StopsAtFragment(ctx.sym[NextRootSym(t)].frag)]_vars

\* C17 witness: gc_sections has returned; a visited section has a relocation
\* whose symbol has both a frag, now alive, and an input_section that was
\* alive on entry, which no other edge refers to and which has been killed.
FragmentPrecedenceWitness ==
  /\ Returned /\ run = 1
  /\ \E r \in Secs :
       /\ visits[r] = 1
       /\ \E k \in 1..Len(ctx.isec[r].rels) :
            LET sym == ctx.sym[ctx.objs[ctx.isec[r].file].symbols[ctx.isec[r].rels[k].r_sym]]
            IN /\ sym.frag # Null /\ frag_alive[sym.frag]
               /\ sym.input_section # Null
               /\ AliveOnEntry(sym.input_section)
               /\ ~is_alive[sym.input_section]
               /\ ~is_visited[sym.input_section]

\* visit() has been called on a section that refers to s by a relocation
\* whose symbol names no fragment.
RelJustified(s) ==
  \E r \in Secs : visits[r] >= 1 /\ s \in RelEdges(r)

\* visit() has been called on a section with an FDE that refers to s by one
\* of rels[1..] (the second relocation or a later one).
FdeJustified(s) ==
  \E r \in Secs :
    /\ visits[r] >= 1
    /\ \E k \in 1..Len(ctx.isec[r].fdes) :
         \E j \in 2..Len(ctx.isec[r].fdes[k].rels) :
           ctx.sym[ctx.isec[r].fdes[k].rels[j].sym].input_section = s

\* C18: a section is accepted by mark_section, put in the work queue or
\* visited only if it is a root, or a visited section refers to it by a
\* relocation or by one of rels[1..] of one of its FDEs: rels[0] of an FDE and
\* the FDEs of an unvisited section give no edge.  So when the first call of
\* gc_sections has returned, a section with SHF_ALLOC to which only such
\* references lead is dead, and a section with SHF_ALLOC that was alive on
\* entry and that rels[1..] of an FDE of a visited section refers to has been
\* accepted and visited and is alive.
FdeEdges ==
  /\ \A s \in Secs :
       accepted[s] + feeder[s] + visits[s] > 0 =>
         s \in Range(roots) \/ RelJustified(s) \/ FdeJustified(s)
  /\ Returned /\ run = 1 =>
       \A s \in Secs :
         (/\ HasAlloc(s)
          /\ s \notin Range(roots)
          /\ ~RelJustified(s)
          /\ ~FdeJustified(s)) => ~is_alive[s]
  /\ Returned /\ run = 1 =>
       \A s \in Secs :
         FdeJustified(s) /\ AliveOnEntry(s) /\ HasAlloc(s) =>
           is_alive[s] /\ accepted[s] = 1 /\ visits[s] = 1

\* C18 witness: gc_sections has returned; a visited section has an FDE whose
\* rels[0] refers to a section that was alive on entry and has been killed,
\* and an FDE one of whose rels[1..] alone kept a section alive.
FdeEdgesWitness ==
  /\ Returned /\ run = 1
  /\ \E r \in Secs :
       /\ visits[r] = 1
       /\ \E k \in 1..Len(ctx.isec[r].fdes) :
            LET t == ctx.sym[ctx.isec[r].fdes[k].rels[1].sym].input_section
            IN t # Null /\ AliveOnEntry(t) /\ HasAlloc(t) /\ ~is_alive[t]
  /\ \E s \in Secs :
       /\ FdeJustified(s) /\ ~RelJustified(s) /\ s \notin Range(roots)
       /\ HasAlloc(s) /\ is_alive[s]

\* No symbol of this name has an input_section or a frag: the name is absent
\* from the symbol table or names an undefined symbol.
Unresolved(name) ==
  \A y \in Syms :
    ctx.sym[y].name = name =>
      ctx.sym[y].input_section = Null /\ ctx.sym[y].frag = Null

\* The entry name or a name of the undefined list is unresolved.
HasUnresolved ==
  \/ Unresolved(ctx.arg.entry)
  \/ \E k \in 1..Len(ctx.arg.undefined) : Unresolved(ctx.arg.undefined[k])

\* C19: the step of collect_root_set that processes an entry or undefined
\* name that resolves to a symbol with no input_section and no frag adds
\* nothing to the root vector and changes no flag and no counter; and a call
\* of gc_sections on an input with such a name returns.
UnresolvedNamedRoots ==
  /\ [][(/\ phase = "ScanC"
         /\ pos'[0] = pos[0] + 1
         /\ Unresolved(Item(0)))
        => UNCHANGED <<roots, is_alive, is_visited, frag_alive, feeder,
                       accepted, visits, counter>>]_vars
  /\ [](HasUnresolved => <>Returned)

\* C19 witness: gc_sections has returned on an input whose entry name is
\* unresolved; the root vector is empty and every section alive on entry has
\* been killed.
UnresolvedNamedRootsWitness ==
  /\ Returned /\ run = 1
  /\ Unresolved(ctx.arg.entry)
  /\ roots = <<>>
  /\ Killed # {} /\ \A s \in Secs : ~is_alive[s]

\* Section r refers to fragment g: by its rel_fragments, or by a relocation
\* whose symbol has g as its frag.
RefersToFragment(r, g) ==
  \/ \E k \in 1..Len(ctx.isec[r].rel_fragments) :
       ctx.isec[r].rel_fragments[k].frag = g
  \/ \E k \in 1..Len(ctx.isec[r].rels) :
       ctx.sym[ctx.objs[ctx.isec[r].file].symbols[ctx.isec[r].rels[k].r_sym]].frag = g

\* The fragments this call of gc_sections marks: those of an output section
\* without SHF_ALLOC, the frag of an exported symbol owned by its file, of
\* the entry symbol and of a symbol of the undefined list, and those a
\* section refers to on which visit() was called.
FragExpected(g) ==
  \/ "SHF_ALLOC" \notin ctx.frag[g].output_section.shdr.sh_flags
  \/ \E y \in RootSymbols : ctx.sym[y].frag = g
  \/ \E r \in Secs : visits[r] >= 1 /\ RefersToFragment(r, g)

\* C20: no step takes the is_alive flag of a fragment from true to false;
\* and when gc_sections has returned, a fragment that was not alive on entry
\* is alive exactly when its output section lacks SHF_ALLOC, or it is the
\* frag of a root symbol, or a section on which visit() was called refers to
\* it, in every interleaving of the tasks and workers that write it.
FragmentLiveness ==
  /\ [][\A g \in Frags : frag_alive[g] => frag_alive'[g]]_vars
  /\ [](Returned =>
          \A g \in Frags :
            ~on_entry.frag_alive[g] => (frag_alive[g] <=> FragExpected(g)))

\* C20 witness: gc_sections has returned; a fragment of an output section
\* with SHF_ALLOC that no root symbol names is alive because two roots that
\* were visited refer to it, with two workers in the pool, and another
\* fragment is not alive.
FragmentLivenessWitness ==
  /\ Returned /\ run = 1 /\ ctx.nworkers = 2
  /\ \E g \in Frags :
       /\ frag_alive[g]
       /\ "SHF_ALLOC" \in ctx.frag[g].output_section.shdr.sh_flags
       /\ \A y \in RootSymbols : ctx.sym[y].frag # g
       /\ \E r1, r2 \in Range(roots) :
            /\ r1 # r2 /\ visits[r1] = 1 /\ visits[r2] = 1
            /\ RefersToFragment(r1, g) /\ RefersToFragment(r2, g)
  /\ \E g \in Frags : ~frag_alive[g]

====
